---- MODULE Spec2Model ----
(***************************************************************************)
(* .github/workflows/scripts/comment_pr.py: post or update the coverage    *)
(* report comment of a pull request.                                       *)
(*                                                                         *)
(* The state is the comment thread of one pull request on the hosting      *)
(* service, and the runs of main() working on it.  A run is a process: it  *)
(* reads argv and the environment, reads two files, and issues one GET     *)
(* and one POST or PATCH.  The requests of different runs interleave.      *)
(***************************************************************************)
EXTENDS Integers, Sequences, FiniteSets, TLC

\* ------------------------------------------------------------------ bounds

\* Comments already on the pull request before the first run.
MaxInitComments == 2

\* The runs of main() on the pull request: two CI jobs, each a process of
\* its own.  They may run one after the other or overlap.
Procs == {"a", "b"}

\* ------------------------------------------------------- program constants

\* len(sys.argv) < 6 is the usage error.
RequiredArgc == 6

\* 'Go Test Coverage Report' is modelled by the field "marker" of a body:
\* TRUE iff the text contains the literal.

\* ---------------------------------------------------------------- inputs

\* sys.argv: its length, whether argv[1] is a decimal integer, and argv[2].
Coverages == { <<"7", "5", "%">> }

Argv ==
    [argc : {RequiredArgc - 1, RequiredArgc, RequiredArgc + 1},
     pr_is_int : BOOLEAN, coverage : Coverages]

\* os.environ: TRUE when the variable is set to a non-empty string.
Env == [token : BOOLEAN, repo : BOOLEAN, event_path : BOOLEAN]

\* The coverage report file when read_file opens it.
ReportFiles == {"missing", "unreadable", "ok  pkg/a  75.0%"}

\* A JSON member as dict.get sees it: not there, null, or an object.
Kinds == {"absent", "null", "object"}
Names == {"absent", "alice/repo", "org/repo"}

\* pull_request.head or pull_request.base: the member itself, its "repo",
\* and repo's "full_name".  What lies under a member that is no object is
\* written "absent".
Sides ==
    { s \in [node : Kinds, repo : Kinds, full_name : Names] :
        /\ s.node # "object" => s.repo = "absent"
        /\ s.repo # "object" => s.full_name = "absent" }

NoSide == [node |-> "absent", repo |-> "absent", full_name |-> "absent"]

\* The file at GITHUB_EVENT_PATH when is_fork_pr opens it.
EventFiles ==
    { e \in [file : {"missing", "unreadable", "invalid_json", "json"},
             top : {"object", "array"},
             pull_request : Kinds, head : Sides, base : Sides] :
        /\ e.file # "json" => (e.top = "object" /\ e.pull_request = "absent")
        /\ e.top # "object" => e.pull_request = "absent"
        /\ e.pull_request # "object" => (e.head = NoSide /\ e.base = NoSide) }

NoEvent ==
    [file |-> "missing", top |-> "object", pull_request |-> "absent",
     head |-> NoSide, base |-> NoSide]

\* ------------------------------------------------------- the pull request

\* A comment body: null (JSON null), or a text, of which the model keeps
\* whether it contains 'Go Test Coverage Report' and, for a generated
\* report, the three values the template embeds.
Body(marker, coverage, badge, report) ==
    [null |-> FALSE, marker |-> marker, coverage |-> coverage,
     badge |-> badge, report |-> report]

NullBody ==
    [null |-> TRUE, marker |-> FALSE, coverage |-> <<>>, badge |-> <<>>,
     report |-> ""]

\* What is on the thread before the first run: who wrote it (the account
\* type of "user", or null for a comment whose user is null) and its body.
InitialKinds ==
    { [user |-> "User", body |-> Body(TRUE, <<>>, <<>>, "> Go Test Coverage Report")],
      [user |-> "Bot",  body |-> Body(FALSE, <<>>, <<>>, "Bump dependency")],
      [user |-> "Bot",  body |-> Body(TRUE, <<"6", "0", "%">>, <<"6", "0", "%", "2", "5">>, "old")],
      [user |-> "null", body |-> Body(FALSE, <<>>, <<>>, "LGTM")] }

\* The service numbers comments in creation order; the first ID it gives
\* out on this thread is one of these.
FirstIds == {0, 1}

Comment(id, user, body) == [id |-> id, user |-> user, body |-> body]

InitialThreads(first) ==
    UNION { { [i \in 1..n |-> Comment(first + i - 1, k[i].user, k[i].body)] :
                k \in [1..n -> InitialKinds] } : n \in 0..MaxInitComments }

\* A coverage comment, as the specification counts them: the body contains
\* the title.
HasTitle(c) == ~c.body.null /\ c.body.marker

CoverageComments(cs) == { i \in 1..Len(cs) : HasTitle(cs[i]) }

\* ---------------------------------------------------- read_file (16-23)

\* [exc, text]: the exception that leaves read_file, or "none", and the
\* text it returns.  Only FileNotFoundError is caught.
read_file(file) ==
    CASE file = "missing"    -> [exc |-> "none", text |-> ""]
      [] file = "unreadable" -> [exc |-> "PermissionError", text |-> ""]
      [] OTHER               -> [exc |-> "none", text |-> file]

\* ------------------------------------------- generate_comment_body (26-68)

\* coverage.replace('%', '%25')
RECURSIVE PercentEncode(_)
PercentEncode(s) ==
    IF s = <<>> THEN <<>>
    ELSE (IF Head(s) = "%" THEN <<"%", "2", "5">> ELSE <<Head(s)>>)
         \o PercentEncode(Tail(s))

\* The template always carries the heading "## {emoji} Go Test Coverage
\* Report", so the generated body has the marker.
TemplateHasTitle == TRUE

generate_comment_body(coverage, file) ==
    LET r == read_file(file)
    IN [exc  |-> r.exc,
        body |-> Body(TemplateHasTitle, coverage, PercentEncode(coverage), r.text)]

\* ------------------------------------------------------ is_fork_pr (170-191)

\* d.get(key, {}) on a Python value: "dict", "None", or the AttributeError
\* that None.get raises (and that carries through the rest of the chain).
DictGet(d, kind) ==
    IF d = "AttributeError" THEN d
    ELSE IF d = "None" THEN "AttributeError"
    ELSE IF kind = "null" THEN "None" ELSE "dict"

\* pr.get(side, {}).get('repo', {}).get('full_name') : a name, "None", or
\* "AttributeError".
FullName(pr, side) ==
    LET repo == DictGet(DictGet(pr, side.node), side.repo)
    IN IF repo = "AttributeError" \/ repo = "None" THEN "AttributeError"
       ELSE IF side.full_name = "absent" THEN "None" ELSE side.full_name

\* The exceptions the except clause of is_fork_pr names.
ForkGuardCatches == {"FileNotFoundError", "JSONDecodeError", "KeyError"}

\* What the try block does: the exception it raises, or "none", and the
\* value of head_repo != base_repo.
ForkGuardBody(ev) ==
    IF ev.file = "missing" THEN [exc |-> "FileNotFoundError", value |-> FALSE]
    ELSE IF ev.file = "unreadable" THEN [exc |-> "PermissionError", value |-> FALSE]
    ELSE IF ev.file = "invalid_json" THEN [exc |-> "JSONDecodeError", value |-> FALSE]
    ELSE IF ev.top = "array" THEN [exc |-> "AttributeError", value |-> FALSE]
    ELSE LET pr   == DictGet("dict", ev.pull_request)
             head == FullName(pr, ev.head)
             base == FullName(pr, ev.base)
         IN IF head = "AttributeError" \/ base = "AttributeError"
            THEN [exc |-> "AttributeError", value |-> FALSE]
            ELSE [exc |-> "none", value |-> (head # base)]

is_fork_pr(ev) ==
    LET r == ForkGuardBody(ev)
    IN IF r.exc \in ForkGuardCatches THEN [exc |-> "none", value |-> FALSE] ELSE r

\* ------------------------------------------- find_existing_comment (71-103)

\* Optional[int]
None == [some |-> FALSE, id |-> 0]
Some(id) == [some |-> TRUE, id |-> id]

Returned(opt) == [exc |-> "none", value |-> opt]
Raised(exc) == [exc |-> exc, value |-> None]

\* 96-97, the test of one comment: "yes", "no", or the exception it raises.
\* comment.get('user', {}) is None for a null user, and None.get raises; the
\* `in` test on a null body raises once the user test has passed.
\* The test without the account type: what C10 must tell apart.
CommentTestAnyAuthor(c) ==
    IF c.body.null THEN "TypeError"
    ELSE IF c.body.marker THEN "yes"
    ELSE "no"

CommentTest(c) ==
    IF c.user = "null" THEN "AttributeError"
    ELSE IF c.user # "Bot" THEN "no"
    ELSE IF c.body.null THEN "TypeError"
    ELSE IF c.body.marker THEN "yes"
    ELSE "no"

\* 95-98: the loop over response.json() from index i on.
RECURSIVE ScanComments(_, _)
ScanComments(cs, i) ==
    IF i > Len(cs) THEN Returned(None)
    ELSE LET t == CommentTest(cs[i])
         IN IF t = "yes" THEN Returned(Some(cs[i].id))
            ELSE IF t = "no" THEN ScanComments(cs, i + 1)
            ELSE Raised(t)

\* The answers to the list request: the list, a 4xx/5xx status
\* (raise_for_status), no answer at all, or a 200 whose text is not JSON.
GetResponses == {"ok", "http_error", "network_error", "invalid_json"}

\* response.json() on text that is not JSON raises
\* requests.exceptions.JSONDecodeError, a RequestException, from requests
\* 2.27 on, and a plain ValueError before; the script pins no version, so
\* json_is_request_exception is either.
find_existing_comment(resp, cs, json_is_request_exception) ==
    CASE resp \in {"http_error", "network_error"} -> Returned(None)
      [] resp = "invalid_json" ->
            IF json_is_request_exception THEN Returned(None)
            ELSE Raised("JSONDecodeError")
      [] OTHER -> ScanComments(cs, 1)

\* --------------------------------- post_comment, update_comment (106-167)

\* The answers to a write: a 2xx, an error status (HTTPError from
\* raise_for_status; "4xx" stands for 5xx too), or a connection failure.  requests follows redirects,
\* so these are the final answers.
WriteResponses == {"2xx", "4xx", "ConnectionError"}

\* Both return True after raise_for_status passed and False from the
\* except clause.
post_comment(resp) == resp = "2xx"

update_comment(resp) == resp = "2xx"

\* The account type the service records for a comment written with
\* GITHUB_TOKEN: the workflow's token belongs to github-actions[bot].
TokenAccountType == "Bot"

\* The service's side of POST /issues/{pr}/comments.
ServerCreate(cs, id, body, resp) ==
    IF resp = "2xx" THEN Append(cs, Comment(id, TokenAccountType, body)) ELSE cs

\* The service's side of PATCH /issues/comments/{comment_id}: the body of
\* the comment with that ID is replaced whole.
ServerUpdate(cs, id, body, resp) ==
    IF resp = "2xx"
    THEN [i \in 1..Len(cs) |-> IF cs[i].id = id THEN [cs[i] EXCEPT !.body = body] ELSE cs[i]]
    ELSE cs

\* ------------------------------------------------------------------ state

VARIABLES
    comments,   \* the thread on the service: a sequence of comments
    nextId,     \* the ID the service gives the next comment
    run,        \* run[p]: the run of main() in slot p
    initial,    \* the thread before the first run (never changes)
    hist,       \* what the finished runs had in common (never read by a run)
    world       \* where the script is run: the inputs a run can meet (never changes)

vars == <<comments, nextId, run, initial, hist, world>>

NoResult == [exc |-> "none", value |-> FALSE]

\* A run at its start, with its inputs: nothing read, nothing sent.
FreshRun(argv, env, ev, file) ==
    [pc |-> "main", argv |-> argv, env |-> env, event |-> ev, report |-> file,
     fork_checked |-> FALSE, fork_result |-> NoResult,
     comment_body |-> NullBody,
     list_resp |-> "none", listed |-> <<>>, found |-> Returned(None),
     existing_comment_id |-> None,
     write_resp |-> "none", method |-> "none", target |-> None,
     gets |-> 0, posts |-> 0, patches |-> 0, writes_seen |-> 0,
     exit_code |-> -1, uncaught |-> "none"]

IdleRun ==
    [FreshRun([argc |-> RequiredArgc, pr_is_int |-> TRUE, coverage |-> <<>>],
              [token |-> TRUE, repo |-> TRUE, event_path |-> FALSE],
              NoEvent, "missing")
     EXCEPT !.pc = "idle"]

InFlight(r) == r.pc \notin {"idle", "exited"}

\* sys.exit(code)
Exit(r, code) == [r EXCEPT !.pc = "exited", !.exit_code = code]

\* An exception nobody catches: the interpreter prints the traceback and
\* the process ends with status 1.
Die(r, exc) == [r EXCEPT !.pc = "exited", !.exit_code = 1, !.uncaught = exc]

\* hist after the run r has ended.  Two runs had the same inputs when they
\* generated the same body.
Finished(h, r) ==
    [h EXCEPT !.finished = h.finished + 1,
              !.all_wrote = h.all_wrote /\ r.write_resp = "2xx" /\ r.exit_code = 0,
              !.same_inputs = h.same_inputs
                              /\ (h.finished = 0 \/ r.comment_body = h.latest_body),
              !.latest_body = r.comment_body]

\* The step of slot p that leaves its run as r.
Step(p, r) ==
    /\ run' = [run EXCEPT ![p] = r]
    /\ hist' = [(IF r.pc = "exited" THEN Finished(hist, r) ELSE hist)
                EXCEPT !.writes = IF r.pc = "exited" /\ r.method # "none" THEN @ + 1 ELSE @]

\* The same-repository and the fork payload of a pull_request event.
PullRequestEvent(head) ==
    [file |-> "json", top |-> "object", pull_request |-> "object",
     head |-> [node |-> "object", repo |-> "object", full_name |-> head],
     base |-> [node |-> "object", repo |-> "object", full_name |-> "org/repo"]]

\* Where the script is run.  "workflow": the coverage workflow on a
\* pull_request event; the runner sets the token, the repository and the
\* event path, the job passes the five arguments, and jobs of successive
\* pushes may overlap.  "invocation": one invocation of the script, with
\* any command line, environment and files, on a thread of at most one
\* comment.
Worlds == {"workflow", "invocation"}

AllThreads == UNION { InitialThreads(first) : first \in FirstIds }

ShortThreads == { t \in AllThreads : Len(t) <= 1 }

WorkflowArgv == { a \in Argv : a.argc = RequiredArgc /\ a.pr_is_int }

WorkflowEnv == { e \in Env : e.token /\ e.repo /\ e.event_path }

WorkflowEvents == { PullRequestEvent("org/repo"), PullRequestEvent("alice/repo") }

SlotsOf(w)   == IF w = "workflow" THEN Procs ELSE {"a"}
ThreadsOf(w) == IF w = "workflow" THEN AllThreads ELSE ShortThreads
ArgvOf(w)    == IF w = "workflow" THEN WorkflowArgv ELSE Argv
EnvOf(w)     == IF w = "workflow" THEN WorkflowEnv ELSE Env
EventsOf(w)  == IF w = "workflow" THEN WorkflowEvents ELSE EventFiles

Setup(w) ==
    /\ world = w
    /\ comments \in ThreadsOf(w)
    /\ nextId \in IF comments = <<>> THEN FirstIds ELSE {comments[Len(comments)].id + 1}
    /\ initial = comments
    /\ run = [p \in Procs |-> IdleRun]
    /\ hist = [overlap |-> FALSE, finished |-> 0, writes |-> 0, all_wrote |-> TRUE,
               same_inputs |-> TRUE, latest_body |-> NullBody]

Init == Setup("workflow")

InitRun == Setup("invocation")

\* ------------------------------------------------------------ main (194-242)

\* 202-212: the usage check, then int(sys.argv[1]).
ArgsOutcome(argv) ==
    IF argv.argc < RequiredArgc THEN "usage"
    ELSE IF ~argv.pr_is_int THEN "ValueError"
    ELSE "ok"

\* The validation without its second test: what C8 must tell apart.
EnvValidTokenOnly(env) == env.token

\* 215-221: `if not token` and `if not repo`.
EnvValid(env) == env.token /\ env.repo

\* A guard that never looks at the event: what C3 must tell apart.
ForkGuardNeverRuns(env) == FALSE

\* 224: `if event_path and is_fork_pr(event_path)`: the file is read only
\* when the variable is set.
ForkGuardRuns(env) == env.event_path

\* 229: the body, once the fork guard has let the run r through.
Format(r) ==
    LET g == generate_comment_body(r.argv.coverage, r.report)
    IN IF g.exc # "none" THEN Die(r, g.exc)
       ELSE [r EXCEPT !.comment_body = g.body, !.pc = "find"]

\* 224-229: the fork guard, once argv and the environment are valid.
Guard(r) ==
    IF ~ForkGuardRuns(r.env) THEN Format(r)
    ELSE LET f  == is_fork_pr(r.event)
             r1 == [r EXCEPT !.fork_checked = TRUE, !.fork_result = f]
         IN IF f.exc # "none" THEN Die(r1, f.exc)
            ELSE IF f.value THEN Exit(r1, 0)
            ELSE Format(r1)

\* 196-229: main() up to its first request.  Nothing here touches the
\* service, so it is one step: the run ends at one of the exits, or stands
\* before the list request with its body built.
Prologue(r) ==
    LET o == ArgsOutcome(r.argv)
    IN IF o = "usage" THEN Exit(r, 1)
       ELSE IF o = "ValueError" THEN Die(r, "ValueError")
       ELSE IF ~EnvValid(r.env) THEN Exit(r, 1)
       ELSE Guard(r)

\* A CI job starts the script on its inputs: argv, the environment, and
\* the two files as the run will find them.
Start(p) ==
    /\ p \in SlotsOf(world)
    /\ run[p].pc = "idle"
    /\ \E argv \in ArgvOf(world), env \in EnvOf(world), ev \in EventsOf(world), file \in ReportFiles :
         LET r == Prologue(FreshRun(argv, env, ev, file))
         IN /\ run' = [run EXCEPT ![p] = r]
            /\ hist' = [(IF r.pc = "exited" THEN Finished(hist, r) ELSE hist)
                        EXCEPT !.overlap = @ \/ (InFlight(r) /\ \E q \in Procs \ {p} : InFlight(run[q]))]
    /\ UNCHANGED <<comments, nextId, initial, world>>

\* 232: one GET, then the scan of what it returned.
FindExisting(p) ==
    /\ run[p].pc = "find"
    /\ \E resp \in GetResponses, json_is_request_exception \in BOOLEAN :
         LET f == find_existing_comment(resp, comments, json_is_request_exception)
             r == [run[p] EXCEPT !.gets = @ + 1, !.list_resp = resp,
                                 !.listed = IF resp = "ok" THEN comments ELSE <<>>,
                                 !.found = f, !.writes_seen = hist.writes]
         IN Step(p, IF f.exc # "none" THEN Die(r, f.exc)
                    ELSE [r EXCEPT !.existing_comment_id = f.value, !.pc = "write"])
    /\ UNCHANGED <<comments, nextId, initial, world>>

\* 235: `if existing_comment_id:` is the truth value of an Optional[int]:
\* None is false, and so is the integer 0.
Truthy(opt) == opt.some /\ opt.id # 0

\* The branches of line 235 swapped: what C9 must tell apart.
WriteMethodSwapped(opt) == IF Truthy(opt) THEN "POST" ELSE "PATCH"

WriteMethod(opt) == IF Truthy(opt) THEN "PATCH" ELSE "POST"

\* An exit that ignores the result: what C5 must tell apart.
ExitStatusIgnoringResult(success) == 0

\* 242: sys.exit(0 if success else 1)
ExitStatus(success) == IF success THEN 0 ELSE 1

\* 235-242: one PATCH or one POST, and the exit.
WriteComment(p) ==
    /\ run[p].pc = "write"
    /\ \E resp \in WriteResponses :
         LET id   == run[p].existing_comment_id
             body == run[p].comment_body
         IN IF WriteMethod(id) = "PATCH"
            THEN /\ comments' = ServerUpdate(comments, id.id, body, resp)
                 /\ nextId' = nextId
                 /\ Step(p, Exit([run[p] EXCEPT !.patches = @ + 1, !.method = "PATCH",
                                                !.target = id, !.write_resp = resp],
                                 ExitStatus(update_comment(resp))))
            ELSE /\ comments' = ServerCreate(comments, nextId, body, resp)
                 /\ nextId' = IF resp = "2xx" THEN nextId + 1 ELSE nextId
                 /\ Step(p, Exit([run[p] EXCEPT !.posts = @ + 1, !.method = "POST",
                                                !.write_resp = resp],
                                 ExitStatus(post_comment(resp))))
    /\ UNCHANGED <<initial, world>>

Next ==
    \E p \in Procs :
        \/ Start(p)
        \/ FindExisting(p)
        \/ WriteComment(p)

\* Runs of the coverage workflow on one pull request.
Spec == Init /\ [][Next]_vars

\* One run of the script on any input.
SpecRun == InitRun /\ [][Next]_vars

\* ------------------------------------------------------------ properties

Exited(r) == r.pc = "exited"

Requests(r) == r.gets + r.posts + r.patches

\* The run issued its list request.
Listed(r) == r.list_resp # "none"

\* The run reached the write step.
Wrote(r) == r.method # "none"

\* A comment the locator is to find: written by a bot, with the title.
BotReport(c) == c.user = "Bot" /\ HasTitle(c)

\* The first such comment of a list, if any, as a comment ID.
FirstBotReport(cs) ==
    LET hits == { i \in 1..Len(cs) : BotReport(cs[i]) }
    IN IF hits = {} THEN None
       ELSE Some(cs[CHOOSE i \in hits : \A j \in hits : i <= j].id)

\* The payload names both repositories.
NamesBoth(ev) ==
    /\ ev.file = "json" /\ ev.top = "object" /\ ev.pull_request = "object"
    /\ ev.head.full_name # "absent"
    /\ ev.base.full_name # "absent"

\* The payload of a pull request from a fork.
HeadDiffersFromBase(ev) == NamesBoth(ev) /\ ev.head.full_name # ev.base.full_name

\* Valid arguments and credentials.
ValidCommandLine(r) == r.argv.argc >= RequiredArgc /\ r.argv.pr_is_int

Credentials(r) == r.env.token /\ r.env.repo

\* C1 (as claimed): from a thread without a coverage comment, after two
\* non-fork runs one after the other with unchanged inputs, the thread holds
\* exactly one coverage comment, with the body of the latest run.  Stated
\* here for the runs most favourable to the claim: both writes were
\* answered 2xx, and the service never gave out the ID 0.
C1_ExactlyOneCoverageComment ==
    ( /\ CoverageComments(initial) = {}
      /\ ~hist.overlap
      /\ hist.finished = Cardinality(Procs)
      /\ hist.same_inputs
      /\ hist.all_wrote
      /\ \A p \in Procs : Exited(run[p]) /\ Listed(run[p])
      /\ \A i \in 1..Len(comments) : comments[i].id # 0 )
    => /\ Cardinality(CoverageComments(comments)) = 1
       /\ \A i \in CoverageComments(comments) : comments[i].body = hist.latest_body

\* C2 (as claimed): a run that lists and ends at an exit of main issues one
\* POST and no PATCH when the list holds no bot report (or the list request
\* failed), and no POST and one PATCH to the ID of the first bot report
\* otherwise, whatever that ID is.
C2_OneWritePerRun ==
    \A p \in Procs :
        LET r == run[p]
            m == IF r.list_resp = "ok" THEN FirstBotReport(r.listed) ELSE None
        IN (Exited(r) /\ Listed(r) /\ r.uncaught = "none")
           => IF m.some
              THEN r.posts = 0 /\ r.patches = 1 /\ r.target = m
              ELSE r.posts = 1 /\ r.patches = 0

\* C3: a run with valid arguments and credentials and an event path whose
\* payload names a head repository other than the base has exited with
\* code 0 at the fork skip, has sent no request, and has left the thread as
\* it was.
C3_ForkSkip ==
    \A p \in Procs :
        LET r == run[p]
        IN ( /\ r.pc # "idle"
             /\ ValidCommandLine(r) /\ Credentials(r)
             /\ r.env.event_path /\ HeadDiffersFromBase(r.event) )
           => /\ Exited(r) /\ r.exit_code = 0 /\ r.uncaught = "none"
              /\ Requests(r) = 0
              /\ comments = initial

C3_Witness ==
    \E p \in Procs :
        /\ Exited(run[p]) /\ run[p].fork_checked
        /\ ValidCommandLine(run[p]) /\ Credentials(run[p])
        /\ run[p].env.event_path /\ HeadDiffersFromBase(run[p].event)
        /\ Len(comments) > 0

\* C4 (as claimed): no exception leaves main uncaught; every run ends at
\* one of the sys.exit calls.
C4_NoUncaughtException ==
    \A p \in Procs : run[p].uncaught = "none"

\* C5: a run that reached the write step exits 0 exactly when its one write
\* was answered 2xx, and never with an uncaught exception; any other exit
\* with code 0 is the fork skip.
C5_ExitReflectsWrite ==
    \A p \in Procs :
        LET r == run[p]
        IN Exited(r) =>
             /\ Wrote(r) => /\ (r.exit_code = 0) <=> (r.write_resp = "2xx")
                            /\ r.exit_code \in {0, 1}
                            /\ r.uncaught = "none"
                            /\ r.posts + r.patches = 1
             /\ (~Wrote(r) /\ r.exit_code = 0)
                  => (r.fork_checked /\ r.fork_result.value /\ Requests(r) = 0)

C5_Witness ==
    \E p, q \in Procs :
        /\ Exited(run[p]) /\ run[p].method = "POST"
        /\ run[p].write_resp = "ConnectionError" /\ run[p].exit_code = 1
        /\ Exited(run[q]) /\ run[q].method = "PATCH"
        /\ run[q].write_resp = "4xx" /\ run[q].exit_code = 1

\* C6 (as claimed): is_fork_pr returns true exactly when the payload names
\* two different repositories, and false on every read failure, parse
\* failure or missing key.  Stated here for the event files that can be
\* read and parsed.
C6_ForkGuardResult ==
    \A p \in Procs :
        (run[p].fork_checked /\ run[p].event.file = "json")
          => run[p].fork_result = [exc |-> "none", value |-> HeadDiffersFromBase(run[p].event)]

\* C7 (as claimed): for every list the service returns, the locator returns
\* the ID of the first bot report, and none when there is no such comment.
C7_FirstBotReport ==
    \A p \in Procs :
        run[p].list_resp = "ok"
          => run[p].found = Returned(FirstBotReport(run[p].listed))

\* C8: a run with fewer than five arguments ends at the usage exit, and a
\* run with five or more but no token or no repository ends with exit code
\* 1; neither sends a request nor checks for a fork.
C8_ValidationOrder ==
    \A p \in Procs :
        LET r == run[p]
        IN /\ (r.pc # "idle" /\ r.argv.argc < RequiredArgc)
                => /\ Exited(r) /\ r.exit_code = 1 /\ r.uncaught = "none"
                   /\ Requests(r) = 0 /\ ~r.fork_checked
           /\ (r.pc # "idle" /\ r.argv.argc >= RequiredArgc /\ ~Credentials(r))
                => /\ Exited(r) /\ r.exit_code = 1
                   /\ Requests(r) = 0 /\ ~r.fork_checked

C8_Witness ==
    \E p \in Procs :
        /\ Exited(run[p]) /\ run[p].exit_code = 1
        /\ ValidCommandLine(run[p])
        /\ run[p].env.token /\ ~run[p].env.repo
        /\ run[p].env.event_path /\ HeadDiffersFromBase(run[p].event)

\* Both runs listed before either wrote, found nothing, and had their
\* write answered 2xx.
BothListedFirst ==
    \A p \in Procs :
        /\ Exited(run[p]) /\ Wrote(run[p])
        /\ run[p].writes_seen = 0
        /\ ~run[p].existing_comment_id.some
        /\ run[p].write_resp = "2xx"

\* C9: on a thread without a coverage comment, two runs that both list
\* before either writes both POST, and the thread ends with two coverage
\* comments; nothing in the script prevents it.
C9_OverlapDuplicates ==
    (CoverageComments(initial) = {} /\ BothListedFirst)
      => /\ \A p \in Procs : run[p].method = "POST"
         /\ Cardinality(CoverageComments(comments)) = Cardinality(Procs)

C9_Witness ==
    /\ CoverageComments(initial) = {}
    /\ BothListedFirst
    /\ hist.overlap
    /\ \A p \in Procs : run[p].list_resp = "ok"

\* The comments whose body a step changes.
Rewritten == { i \in 1..Len(comments) : comments'[i].body # comments[i].body }

\* What one step may do to the thread: it removes nothing and changes no
\* ID and no author; it changes at most one body, and only as the PATCH of
\* a run whose own list showed that comment as a bot's, with the title; no
\* run sends a second PATCH.
C10_StepFrame ==
    /\ Len(comments') >= Len(comments)
    /\ \A i \in 1..Len(comments) :
         /\ comments'[i].id = comments[i].id
         /\ comments'[i].user = comments[i].user
    /\ Cardinality(Rewritten) <= 1
    /\ \A i \in Rewritten :
         \E p \in Procs :
            /\ run[p].pc = "write" /\ run'[p].method = "PATCH"
            /\ \E j \in 1..Len(run[p].listed) :
                 /\ run[p].listed[j].id = comments[i].id
                 /\ BotReport(run[p].listed[j])
    /\ \A p \in Procs : run'[p].patches <= 1

\* C10: across any sequence of runs, every step keeps to C10_StepFrame: a
\* run rewrites at most one comment, one its own list request returned as
\* bot-authored and carrying the title; every other comment keeps its
\* body, and the number of comments never decreases.
C10_Frame == [][C10_StepFrame]_vars

C10_Witness ==
    \E i \in 1..Len(initial) :
        /\ comments[i].body # initial[i].body
        /\ Len(comments) > Len(initial)

====
